---- MODULE Spec2Model ----
(***************************************************************************)
(* The DIMACS CNF parser, the formula evaluator and the SAT objective of   *)
(* src/src/alg/objectives.rs.                                              *)
(*                                                                         *)
(* Formula::parse_from_dimacs_cnf reads a stream once, front to back, so   *)
(* the stream is modelled as an adversary that hands the parser its next   *)
(* line, and within a clause line its next token, one at a time: every     *)
(* input text (within the bounds) is one sequence of such choices.  A line *)
(* is the sequence of its whitespace-separated tokens (what trim() and     *)
(* split_whitespace() leave of it); a token is a sequence of characters.   *)
(*                                                                         *)
(* u64 and i64 are scaled down to Bits bits: i64 is -2^(Bits-1) ..         *)
(* 2^(Bits-1)-1 and u64 is 0 .. 2^Bits-1.  usize is taken to be as wide as *)
(* u64 (a 64-bit target), so the `as usize` casts are the identity.        *)
(*                                                                         *)
(* The population generators of src/src/population.rs (gen_pop) are a      *)
(* second machine; Population::generate_population of                      *)
(* src/alg_ev/src/pop_gen.rs has the same statements, arm by arm.  The     *)
(* calls into the rand crate are modelled by what they return: gen_bool a  *)
(* boolean, Uniform::sample a value of the range, shuffle a permutation.   *)
(***************************************************************************)
EXTENDS Integers, Sequences, FiniteSets

\* ------------------------------------------------------------------ bounds
Bits == 3            \* width of the scaled-down u64 / i64
MaxHeaderToks == 5   \* tokens on the header line
MaxLits == 3         \* literals read from one stream, over all its clause lines
MaxDim == 3          \* length of a valuation handed to Formula::evaluate
PopMaxLits == 2      \* as MaxLits, for the formula of a SATObjective
MaxPop == 2          \* individuals of a population
MaxGenes == 2        \* genes of an individual
MaxGenDim == 2       \* dim of a generator
MaxGenPop == 2       \* pop_size of a generator
IntBound == 1        \* largest integer bound of an IntegerPopGenerator
RealMax == 1         \* f64::MAX, scaled down

RECURSIVE Pow2(_)
Pow2(n) == IF n = 0 THEN 1 ELSE 2 * Pow2(n - 1)
I64Min == 0 - Pow2(Bits - 1)
I64Max == Pow2(Bits - 1) - 1
U64Max == Pow2(Bits) - 1

\* ------------------------------------------------------------------ input
Digits == {"0", "1", "2", "3", "4", "5", "6", "7", "8", "9"}
DigitVal(c) ==
    CASE c = "0" -> 0 [] c = "1" -> 1 [] c = "2" -> 2 [] c = "3" -> 3
      [] c = "4" -> 4 [] c = "5" -> 5 [] c = "6" -> 6 [] c = "7" -> 7
      [] c = "8" -> 8 [] c = "9" -> 9

\* The tokens a clause line is drawn from: zero, both polarities of variable
\* 1, variable 2, the most negative i64 (at Bits = 3), a value above
\* i64::MAX, signs and leading zeros, and text that is no integer.
Tokens ==
    { <<"0">>, <<"1">>, <<"-", "1">>, <<"2">>, <<"-", "4">>, <<"9">>,
      <<"+", "1">>, <<"-", "0">>, <<"x">> }

\* The first token of a body line: a clause token, or the start of a
\* terminator or comment line; <<>> stands for a blank line.
FirstTokens == Tokens \cup { <<"%">>, <<"%", "1">>, <<"c">>, <<"c", "1">>, <<>> }

\* The tokens a header line is drawn from.
HeaderTokens ==
    { <<"p">>, <<"c", "n", "f">>, <<"0">>, <<"1">>, <<"2">>, <<"-", "1">> }

SeqsUpTo(S, n) == UNION { [1..k -> S] : k \in 0..n }

HeaderLines == SeqsUpTo(HeaderTokens, MaxHeaderToks)

\* The valuations handed to Formula::evaluate, the individuals
\* (BinaryEncoding) and the populations handed to SATObjective::eval.
Valuations == SeqsUpTo(BOOLEAN, MaxDim)
Individuals == SeqsUpTo(BOOLEAN, MaxGenes)
Populations == SeqsUpTo(Individuals, MaxPop)

\* ------------------------------------------------------- integer parsing
\* str::parse::<i64>() / ::<u64>(): an optional sign ('-' only for a signed
\* type), then at least one decimal digit, accumulated digit by digit with
\* checked arithmetic.  The result is [ok, val]; the kind of ParseIntError
\* is not kept.
RECURSIVE ParseDigits(_, _, _, _)
ParseDigits(digits, acc, positive, signed) ==
    IF digits = <<>> THEN [ok |-> TRUE, val |-> acc]
    ELSE IF Head(digits) \notin Digits THEN [ok |-> FALSE, val |-> 0]
    ELSE LET d == DigitVal(Head(digits))
             next == IF positive THEN acc * 10 + d ELSE acc * 10 - d
             lo == IF signed THEN I64Min ELSE 0
             hi == IF signed THEN I64Max ELSE U64Max
         IN  IF next < lo \/ next > hi THEN [ok |-> FALSE, val |-> 0]
             ELSE ParseDigits(Tail(digits), next, positive, signed)

ParseInt(tok, signed) ==
    IF tok = <<>> THEN [ok |-> FALSE, val |-> 0]
    ELSE IF Head(tok) \in {"+", "-"} /\ Len(tok) = 1 THEN [ok |-> FALSE, val |-> 0]
    ELSE IF Head(tok) = "+" THEN ParseDigits(Tail(tok), 0, TRUE, signed)
    ELSE IF Head(tok) = "-" /\ signed THEN ParseDigits(Tail(tok), 0, FALSE, signed)
    ELSE ParseDigits(tok, 0, TRUE, signed)

\* ---------------------------------------------------------------- results
\* A Result<Formula, FormulaParsingError>, or the function not having
\* returned: still running, or aborted by a panic (err names the place).
NoFormula == [num_vars |-> 0, num_clauses |-> 0, clauses |-> <<>>]
Ok(f) == [kind |-> "Ok", err |-> "", formula |-> f]
Err(e) == [kind |-> "Err", err |-> e, formula |-> NoFormula]
Panic(m) == [kind |-> "Panic", err |-> m, formula |-> NoFormula]
NotReturned == [kind |-> "Running", err |-> "", formula |-> NoFormula]

Var(id) == [tag |-> "Var", id |-> id]
NegatedVar(id) == [tag |-> "NegatedVar", id |-> id]

\* An Option<FormulaEvaluation>, or Formula::evaluate not having returned.
EvalResult(kind, solved, num_true, num_false) ==
    [kind |-> kind, solved |-> solved, num_true |-> num_true,
     num_false |-> num_false]
NotEvaluated == EvalResult("Running", FALSE, 0, 0)
None == EvalResult("None", FALSE, 0, 0)
EvalPanic == EvalResult("Panic", FALSE, 0, 0)

\* An Option<Vec<usize>>, or SATObjective::eval not having returned.
NoScores == [kind |-> "Running", scores |-> <<>>]
SomeScores(v) == [kind |-> "Some", scores |-> v]
NoneScores == [kind |-> "None", scores |-> <<>>]
ScoresPanic == [kind |-> "Panic", scores |-> <<>>]

VARIABLES
    pc,           \* where parse_from_dimacs_cnf is: "start", "header", "lines"
                  \* (about to read a line), "token" (about to parse tok),
                  \* "tokens" (about to read a token), "eof" (the stream
                  \* ended), "terminated" (the loop broke at a terminator
                  \* line), "done" (it returned or panicked)
    header,       \* header_parts, while the header is being matched
    tok,          \* tok: the token being parsed
    num_vars,     \* the header's first count
    num_clauses,  \* the header's second count
    var_set,      \* var_set: the variable ids seen
    clauses,      \* clauses: the clauses stored, each a sequence of literals
    lits,         \* lits: the literals of the clause line being read
    result,       \* what parse_from_dimacs_cnf returned
    valoration,   \* the valuation last handed to Formula::evaluate
    evaluation,   \* what Formula::evaluate returned for it
    pop,          \* the population last handed to SATObjective::eval
    scores,       \* what SATObjective::eval returned for it
    no_zero,      \* history of the input: some clause stored came from a
                  \* line that ended without a 0 token
    generator,    \* self of the gen_pop call: kind, dim, bounds, pop_size
    gpc,          \* where gen_pop is: "idle" (not called), "individuals"
                  \* (the outer map), "genes" (the inner map), "returned",
                  \* "panicked"
    population,   \* the individuals collected so far
    samples       \* binary_samples / int_samples / real_samples: the genes
                  \* of the individual being collected

vars == <<pc, header, tok, num_vars, num_clauses, var_set, clauses, lits,
          result, valoration, evaluation, pop, scores, no_zero,
          generator, gpc, population, samples>>

genVars == <<generator, gpc, population, samples>>

parserVars == <<pc, header, tok, num_vars, num_clauses, var_set, clauses,
                lits, result, no_zero>>

\* ------------------------------------------------------------ the parser
Init ==
    /\ pc = "start"
    /\ header = <<>>
    /\ tok = <<>>
    /\ num_vars = 0
    /\ num_clauses = 0
    /\ var_set = {}
    /\ clauses = <<>>
    /\ lits = <<>>
    /\ result = NotReturned
    /\ valoration = <<>>
    /\ evaluation = NotEvaluated
    /\ pop = <<>>
    /\ scores = NoScores
    /\ no_zero = FALSE
    /\ generator = [kind |-> "None", dim |-> 0, lower |-> 0, upper |-> 0,
                    pop_size |-> 0]
    /\ gpc = "idle"
    /\ population = <<>>
    /\ samples = <<>>

Return(r) ==
    /\ pc' = "done"
    /\ result' = r

\* lines.next().ok_or(NoHeader)??.trim(), then split_whitespace(): the
\* stream is empty, fails, or yields the header line.
ReadHeader ==
    /\ pc = "start"
    /\ \/ /\ Return(Err("NoHeader"))
          /\ UNCHANGED header
       \/ /\ Return(Err("IO"))
          /\ UNCHANGED header
       \/ /\ \E line \in HeaderLines : header' = line
          /\ pc' = "header"
          /\ UNCHANGED result
    /\ UNCHANGED <<tok, num_vars, num_clauses, var_set, clauses, lits,
                   valoration, evaluation, pop, scores,
                   no_zero, genVars>>

\* if let ["p", "cnf", num_vars, num_clauses, ..] = header_parts.as_slice()
\*     { Ok((num_vars.parse()?, num_clauses.parse()?)) }
\* else { Err(InvalidHeader) }
HeaderValues(header_parts) ==
    IF /\ Len(header_parts) >= 4
       /\ header_parts[1] = <<"p">>
       /\ header_parts[2] = <<"c", "n", "f">>
    THEN LET nv == ParseInt(header_parts[3], FALSE)
             nc == ParseInt(header_parts[4], FALSE)
         IN  IF ~nv.ok \/ ~nc.ok THEN Err("Parsing")
             ELSE Ok([num_vars |-> nv.val, num_clauses |-> nc.val,
                      clauses |-> <<>>])
    ELSE Err("InvalidHeader")

\* let (num_vars, num_clauses) = header_values?; header_parts is not used
\* after this point.
ParseHeader ==
    /\ pc = "header"
    /\ LET hv == HeaderValues(header)
       IN  IF hv.kind = "Ok"
           THEN /\ num_vars' = hv.formula.num_vars
                /\ num_clauses' = hv.formula.num_clauses
                /\ pc' = "lines"
                /\ header' = <<>>
                /\ UNCHANGED result
           ELSE /\ Return(hv)
                /\ UNCHANGED <<header, num_vars, num_clauses>>
    /\ UNCHANGED <<tok, var_set, clauses, lits, valoration, evaluation, pop,
                   scores,
                   no_zero, genVars>>

\* `(-val) as u64` for val < 0.  -i64::MIN overflows: a build with overflow
\* checks (overflow_checks) panics there, a build without wraps to i64::MIN,
\* which the cast turns into 2^(Bits-1).  The result is [ok, val].
NegateAsU64(val, overflow_checks) ==
    IF val = I64Min
    THEN IF overflow_checks THEN [ok |-> FALSE, val |-> 0]
         ELSE [ok |-> TRUE, val |-> val % Pow2(Bits)]
    ELSE [ok |-> TRUE, val |-> 0 - val]

\* One turn of `for tok in trimmed_line.split_whitespace()`: what token t
\* does to the clause being read.  k is "error" (tok.parse()? failed),
\* "break" (val == 0), "panic" or "lit" (a literal is pushed).
TokenStep(t, overflow_checks) ==
    LET val == ParseInt(t, TRUE)
    IN  IF ~val.ok THEN [k |-> "error", lit |-> Var(0)]
        ELSE IF val.val = 0 THEN [k |-> "break", lit |-> Var(0)]
        ELSE IF val.val > 0 THEN [k |-> "lit", lit |-> Var(val.val)]
        ELSE LET variable == NegateAsU64(val.val, overflow_checks)
             IN  IF variable.ok
                 THEN [k |-> "lit", lit |-> NegatedVar(variable.val)]
                 ELSE [k |-> "panic", lit |-> Var(0)]

\* trimmed_line.starts_with(ch), on the line's first token (<<>>: the line
\* is blank).
StartsWith(first, ch) == first # <<>> /\ Head(first) = ch
IsTerminator(first) == StartsWith(first, "%")
IsSkipped(first) == first = <<>> \/ StartsWith(first, "c")

\* The literals read so far, stored or on the line being read.
RECURSIVE SumLen(_)
SumLen(cls) == IF cls = <<>> THEN 0 ELSE Len(Head(cls)) + SumLen(Tail(cls))
LitsRead == SumLen(clauses) + Len(lits)

\* Whether the token pushes a literal (it is a nonzero integer).
PushesLiteral(t) == ParseInt(t, TRUE).ok /\ ParseInt(t, TRUE).val # 0

\* IsEmpty taking no clause for empty.
IsEmptyNever(ls) == FALSE

\* lits.is_empty()
IsEmpty(ls) == ls = <<>>

\* if lits.is_empty() { return Err(EmptyClause) }  clauses.push(Clause(lits))
EndClause ==
    IF IsEmpty(lits)
    THEN /\ Return(Err("EmptyClause"))
         /\ UNCHANGED <<tok, clauses, lits>>
    ELSE /\ clauses' = Append(clauses, lits)
         /\ lits' = <<>>
         /\ tok' = <<>>
         /\ pc' = "lines"
         /\ UNCHANGED result

\* The body of the token loop for tok.
ParseToken ==
    /\ pc = "token"
    /\ \E overflow_checks \in BOOLEAN :
         LET step == TokenStep(tok, overflow_checks)
         IN  CASE step.k = "error" ->
                    /\ Return(Err("Parsing"))
                    /\ UNCHANGED <<tok, var_set, clauses, lits>>
               [] step.k = "panic" ->
                    /\ Return(Panic("negate with overflow"))
                    /\ UNCHANGED <<tok, var_set, clauses, lits>>
               [] step.k = "break" ->
                    /\ EndClause
                    /\ UNCHANGED var_set
               [] step.k = "lit" ->
                    /\ var_set' = var_set \cup {step.lit.id}
                    /\ lits' = Append(lits, step.lit)
                    /\ tok' = <<>>
                    /\ pc' = "tokens"
                    /\ UNCHANGED <<clauses, result>>
    /\ UNCHANGED <<header, num_vars, num_clauses, valoration, evaluation, pop,
                   scores,
                   no_zero, genVars>>

\* LoopRuns with a terminator line that does not leave the loop.
LoopRunsAfterBreak == pc \in {"lines", "terminated"}

\* Whether `for line in lines` asks the stream for its next line: not after
\* the break at a terminator line.
LoopRuns == pc = "lines"

\* `for line in lines`: the stream ends, fails, or yields a line, which is
\* the terminator (break), a blank or comment line (continue), or a clause
\* line, whose first token is parsed next.  The stream holds at most cap
\* literals.
NextLine(cap) ==
    /\ LoopRuns
    /\ \/ /\ pc' = "eof"
          /\ UNCHANGED <<tok, result>>
       \/ /\ Return(Err("IO"))
          /\ UNCHANGED tok
       \/ \E first \in FirstTokens :
            IF IsTerminator(first)
            THEN /\ pc' = "terminated"
                 /\ UNCHANGED <<tok, result>>
            ELSE IF IsSkipped(first)
            THEN /\ pc' = "lines"
                 /\ UNCHANGED <<tok, result>>
            ELSE /\ PushesLiteral(first) => LitsRead < cap
                 /\ tok' = first
                 /\ pc' = "token"
                 /\ UNCHANGED result
    /\ UNCHANGED <<header, num_vars, num_clauses, var_set, clauses, lits,
                   valoration, evaluation, pop, scores,
                   no_zero, genVars>>

\* The clause line being read has another token.
NextToken(cap) ==
    /\ pc = "tokens"
    /\ \E t \in Tokens :
         /\ PushesLiteral(t) => LitsRead < cap
         /\ tok' = t
    /\ pc' = "token"
    /\ UNCHANGED <<header, num_vars, num_clauses, var_set, clauses, lits,
                   result, valoration, evaluation, pop, scores,
                   no_zero, genVars>>

\* The clause line being read has no more tokens.
EndOfLine ==
    /\ pc = "tokens"
    /\ EndClause
    /\ no_zero' = TRUE
    /\ UNCHANGED <<header, num_vars, num_clauses, var_set, valoration,
                   evaluation, pop, scores, genVars>>

\* var_set.iter().max(), of a non-empty set.
Max(S) == CHOOSE m \in S : \A x \in S : x <= m

\* FinalCheck without the var_set.len() check.
FinalCheckNoVarCount(nv, nc, cls, vs) ==
    IF Len(cls) # nc THEN Err("InconsistentNumOfClauses")
    ELSE IF vs = {} THEN Panic("unwrap on None")
    ELSE IF Max(vs) # nv THEN Err("VarOutOfBounds")
    ELSE Ok([num_vars |-> nv, num_clauses |-> nc, clauses |-> cls])

\* FinalCheck without the check of the maximum.
FinalCheckNoMax(nv, nc, cls, vs) ==
    IF Len(cls) # nc THEN Err("InconsistentNumOfClauses")
    ELSE IF Cardinality(vs) # nv THEN Err("InconsistentNumOfVars")
    ELSE Ok([num_vars |-> nv, num_clauses |-> nc, clauses |-> cls])

\* The checks after the loop, and the value returned.
FinalCheck(nv, nc, cls, vs) ==
    IF Len(cls) # nc THEN Err("InconsistentNumOfClauses")
    ELSE IF Cardinality(vs) # nv THEN Err("InconsistentNumOfVars")
    ELSE IF vs = {} THEN Panic("unwrap on None")
    ELSE IF Max(vs) # nv THEN Err("VarOutOfBounds")
    ELSE Ok([num_vars |-> nv, num_clauses |-> nc, clauses |-> cls])

FinalChecks ==
    /\ pc \in {"eof", "terminated"}
    /\ Return(FinalCheck(num_vars, num_clauses, clauses, var_set))
    /\ UNCHANGED <<header, tok, num_vars, num_clauses, var_set, clauses, lits,
                   valoration, evaluation, pop, scores,
                   no_zero, genVars>>

\* ------------------------------------------------------- the evaluator
\* LiteralValue reading valoration.get(index): the variable ids taken as
\* starting at 0.
LiteralValueNoOffset(literal, val, overflow_checks) ==
    IF literal.id < Len(val)
    THEN IF val[literal.id + 1] = (literal.tag = "Var") THEN "T" ELSE "F"
    ELSE "None"

\* valoration.get((index - 1) as usize), negated for a NegatedVar: "T", "F",
\* "None" (no such index) or "Panic".  index - 1 underflows for index 0: a
\* build with overflow checks panics, one without wraps to u64::MAX, which
\* no valuation reaches.
LiteralValue(literal, val, overflow_checks) ==
    IF literal.id = 0
    THEN IF overflow_checks THEN "Panic" ELSE "None"
    ELSE IF literal.id - 1 < Len(val)
         THEN IF val[literal.id] = (literal.tag = "Var") THEN "T" ELSE "F"
         ELSE "None"

\* ClauseEvaluate with all() in the place of any().
ClauseEvaluateAll(literals, val, overflow_checks, any_true) ==
    LET values == { LiteralValue(literals[j], val, overflow_checks) :
                      j \in 1..Len(literals) }
    IN  IF "Panic" \in values THEN "Panic"
        ELSE IF "None" \in values THEN "None"
        ELSE IF values \subseteq {"T"} THEN "T" ELSE "F"

\* Clause::evaluate: the literals' values are collected into an
\* Option<Vec<bool>>, which stops at the first None; any_true is
\* evaluation.iter().any(|v| *v) over the values collected so far.
RECURSIVE ClauseEvaluate(_, _, _, _)
ClauseEvaluate(literals, val, overflow_checks, any_true) ==
    IF literals = <<>> THEN IF any_true THEN "T" ELSE "F"
    ELSE LET v == LiteralValue(Head(literals), val, overflow_checks)
         IN  IF v \in {"None", "Panic"} THEN v
             ELSE ClauseEvaluate(Tail(literals), val, overflow_checks,
                                 any_true \/ v = "T")

\* The clauses' values collected into an Option<Vec<bool>> and folded into
\* num_true, the number of true clauses: [kind, n] with kind "Some", "None"
\* or "Panic".
RECURSIVE CountTrue(_, _, _, _)
CountTrue(cls, val, overflow_checks, num_true) ==
    IF cls = <<>> THEN [kind |-> "Some", n |-> num_true]
    ELSE LET v == ClauseEvaluate(Head(cls), val, overflow_checks, FALSE)
         IN  IF v \in {"None", "Panic"} THEN [kind |-> v, n |-> 0]
             ELSE CountTrue(Tail(cls), val, overflow_checks,
                            IF v = "T" THEN num_true + 1 ELSE num_true)

\* WrongLength rejecting only valuations that are too short.
WrongLengthTooShort(formula, val) == formula.num_vars > Len(val)

\* if self.num_vars as usize != valoration.len() { return None }
WrongLength(formula, val) == formula.num_vars # Len(val)

\* Solved as soon as one clause is true.
SolvedByAny(formula, num_true) == num_true > 0

\* solved: num_true == self.num_clauses
Solved(formula, num_true) == num_true = formula.num_clauses

\* Formula::evaluate.  num_clauses - num_true is a u64 subtraction: below
\* zero it panics with overflow checks and wraps without.
FormulaEvaluate(formula, val, overflow_checks) ==
    IF WrongLength(formula, val) THEN None
    ELSE LET counted == CountTrue(formula.clauses, val, overflow_checks, 0)
             num_true == counted.n
         IN  IF counted.kind = "None" THEN None
             ELSE IF counted.kind = "Panic" THEN EvalPanic
             ELSE IF num_true > formula.num_clauses /\ overflow_checks
             THEN EvalPanic
             ELSE EvalResult("Some", Solved(formula, num_true), num_true,
                             (formula.num_clauses - num_true) % Pow2(Bits))

\* A caller evaluates a valuation against the formula the parser returned
\* (one call: the function is pure, so a second call shows nothing new).
Evaluate ==
    /\ pc = "done"
    /\ result.kind = "Ok"
    /\ evaluation = NotEvaluated
    /\ \E val \in Valuations : \E overflow_checks \in BOOLEAN :
         /\ valoration' = val
         /\ evaluation' = FormulaEvaluate(result.formula, val, overflow_checks)
    /\ UNCHANGED <<parserVars, pop, scores, genVars>>

\* ---------------------------------------------------- the SAT objective
\* Score by the number of true clauses.
ScoreNumTrue(formula, ind, overflow_checks) ==
    LET r == FormulaEvaluate(formula, ind, overflow_checks)
    IN  IF r.kind = "Some" THEN SomeScores(<<r.num_true>>)
        ELSE IF r.kind = "Panic" THEN ScoresPanic
        ELSE NoneScores

\* What one individual contributes to the collected Option<Vec<usize>>:
\* Some(evaluation.num_false), or None.
Score(formula, ind, overflow_checks) ==
    LET r == FormulaEvaluate(formula, ind, overflow_checks)
    IN  IF r.kind = "Some" THEN SomeScores(<<r.num_false>>)
        ELSE IF r.kind = "Panic" THEN ScoresPanic
        ELSE NoneScores

\* CollectScores leaving out the individuals that have no score.
RECURSIVE CollectScoresSkipping(_, _, _, _)
CollectScoresSkipping(formula, individuals, overflow_checks, acc) ==
    IF individuals = <<>> THEN SomeScores(acc)
    ELSE LET s == Score(formula, Head(individuals), overflow_checks)
         IN  CollectScoresSkipping(formula, Tail(individuals), overflow_checks,
                                   IF s.kind = "Some" THEN acc \o s.scores
                                   ELSE acc)

\* The individuals' scores collected into an Option<Vec<usize>>, which
\* stops at the first None.
RECURSIVE CollectScores(_, _, _, _)
CollectScores(formula, individuals, overflow_checks, acc) ==
    IF individuals = <<>> THEN SomeScores(acc)
    ELSE LET s == Score(formula, Head(individuals), overflow_checks)
         IN  IF s.kind # "Some" THEN s
             ELSE CollectScores(formula, Tail(individuals), overflow_checks,
                                acc \o s.scores)

\* SATObjective::eval
SATObjectiveEval(formula, individuals, overflow_checks) ==
    CollectScores(formula, individuals, overflow_checks, <<>>)

\* A caller scores a population against the formula the parser returned
\* (one call).
Eval ==
    /\ pc = "done"
    /\ result.kind = "Ok"
    /\ scores = NoScores
    /\ \E p \in Populations : \E overflow_checks \in BOOLEAN :
         /\ pop' = p
         /\ scores' = SATObjectiveEval(result.formula, p, overflow_checks)
    /\ UNCHANGED <<parserVars, valoration, evaluation, genVars>>

\* ------------------------------------------------ population generators
\* f64, scaled down: the finite values are -RealMax .. RealMax, and the two
\* infinities lie one step outside.  NaN is left out: no bounds with a NaN
\* satisfy lower <= upper.
NegInfinity == 0 - (RealMax + 1)
Infinity == RealMax + 1
F64Values == NegInfinity..Infinity
IsFinite(x) == x \in (0 - RealMax)..RealMax

\* The generators gen_pop is called on: BinaryPopGenerator,
\* IntegerPopGenerator, IntPermPopGenerator, RealPopGenerator.
Generator(kind, dim, lower, upper, pop_size) ==
    [kind |-> kind, dim |-> dim, lower |-> lower, upper |-> upper,
     pop_size |-> pop_size]
Generators ==
    { Generator(kind, dim, 0, 0, pop_size) :
        kind \in {"Binary", "IntPerm"}, dim \in 0..MaxGenDim,
        pop_size \in 0..MaxGenPop }
    \cup { Generator("Integer", dim, bounds[1], bounds[2], pop_size) :
             dim \in 0..MaxGenDim, pop_size \in 0..MaxGenPop,
             bounds \in (0..IntBound) \X (0..IntBound) }
    \cup { Generator("Real", dim, bounds[1], bounds[2], pop_size) :
             dim \in 0..MaxGenDim, pop_size \in 0..MaxGenPop,
             bounds \in F64Values \X F64Values }

\* Uniform::from(lower..=upper), that is Uniform::new_inclusive: it panics
\* when lower > upper and, for f64 bounds, when the scale it derives from
\* upper - lower is not finite (a bound is infinite, or the difference
\* overflows f64).  Generators without bounds build no distribution.
UniformFromPanics(g) ==
    CASE g.kind = "Integer" -> g.lower > g.upper
      [] g.kind = "Real" ->
            \/ g.lower > g.upper
            \/ ~IsFinite(g.lower)
            \/ ~IsFinite(g.upper)
            \/ ~IsFinite(g.upper - g.lower)
      [] OTHER -> FALSE

\* What one turn of the inner map yields: rng.gen_bool(0.5), or
\* uniform_dist.sample(&mut rng), a value of lower..=upper.
Samples(g) == IF g.kind = "Binary" THEN BOOLEAN ELSE g.lower..g.upper

\* (0..self.dim).collect::<Vec<usize>>()
Range(dim) == [i \in 1..dim |-> i - 1]

\* range.shuffle(&mut rng): the orders the slice can be left in.
Shuffles(range) ==
    { [i \in 1..Len(range) |-> range[f[i]]] :
        f \in { g \in [1..Len(range) -> 1..Len(range)] :
                  \A i, j \in 1..Len(range) : g[i] = g[j] => i = j } }

\* gen_pop is called: the bounds are read and the distribution is built,
\* before the first individual.
GenPop ==
    /\ gpc = "idle"
    /\ \E g \in Generators :
         /\ generator' = g
         /\ gpc' = IF UniformFromPanics(g) THEN "panicked" ELSE "individuals"
    /\ UNCHANGED <<population, samples>>
    /\ UNCHANGED <<parserVars, valoration, evaluation, pop, scores>>

\* One turn of (0..self.pop_size).map(..).collect(): the next individual is
\* started (an IntPerm individual is made in one go, by shuffle), or the
\* population is returned.
NextIndividual ==
    /\ gpc = "individuals"
    /\ IF Len(population) < generator.pop_size
       THEN IF generator.kind = "IntPerm"
            THEN /\ \E range \in Shuffles(Range(generator.dim)) :
                      population' = Append(population, range)
                 /\ UNCHANGED <<gpc, samples>>
            ELSE /\ gpc' = "genes"
                 /\ UNCHANGED <<population, samples>>
       ELSE /\ gpc' = "returned"
            /\ UNCHANGED <<population, samples>>
    /\ UNCHANGED generator
    /\ UNCHANGED <<parserVars, valoration, evaluation, pop, scores>>

\* One turn of (0..self.dim).map(..).collect(): the next gene is drawn, or
\* the individual is complete and joins the population.
NextGene ==
    /\ gpc = "genes"
    /\ IF Len(samples) < generator.dim
       THEN /\ \E v \in Samples(generator) : samples' = Append(samples, v)
            /\ UNCHANGED <<gpc, population>>
       ELSE /\ population' = Append(population, samples)
            /\ samples' = <<>>
            /\ gpc' = "individuals"
    /\ UNCHANGED generator
    /\ UNCHANGED <<parserVars, valoration, evaluation, pop, scores>>

\* ------------------------------------------------------- specifications
\* The parser on any stream of at most MaxLits literals, and
\* Formula::evaluate on what it returns.
Next ==
    \/ ReadHeader
    \/ ParseHeader
    \/ NextLine(MaxLits)
    \/ ParseToken
    \/ NextToken(MaxLits)
    \/ EndOfLine
    \/ FinalChecks
    \/ Evaluate

Spec == Init /\ [][Next]_vars

\* The parser on any stream of at most PopMaxLits literals, and
\* SATObjective::eval on what it returns.
NextObjective ==
    \/ ReadHeader
    \/ ParseHeader
    \/ NextLine(PopMaxLits)
    \/ ParseToken
    \/ NextToken(PopMaxLits)
    \/ EndOfLine
    \/ FinalChecks
    \/ Eval

SpecObjective == Init /\ [][NextObjective]_vars

\* gen_pop on any generator within the bounds.
NextGenerator ==
    \/ GenPop
    \/ NextIndividual
    \/ NextGene

SpecGenerator == Init /\ [][NextGenerator]_vars

\* ------------------------------------------------------------ the claims
\* The variable ids the clauses refer to.
VarIds(cls) ==
    UNION { { cls[i][j].id : j \in 1..Len(cls[i]) } : i \in 1..Len(cls) }

\* C1: whenever the parser returns Ok(formula), the formula has num_clauses
\* clauses, its clauses refer to exactly num_vars distinct variable ids, and
\* those ids are exactly 1..num_vars (none is 0, the largest is num_vars).
C1_ParsedFormulaIsConsistent ==
    result.kind = "Ok" =>
        LET f == result.formula
        IN  /\ Len(f.clauses) = f.num_clauses
            /\ Cardinality(VarIds(f.clauses)) = f.num_vars
            /\ VarIds(f.clauses) = 1..f.num_vars

\* The parser returned a formula of two clauses over two variables.
C1_Witness ==
    /\ pc = "done"
    /\ result.kind = "Ok"
    /\ result.formula.num_vars = 2
    /\ Len(result.formula.clauses) = 2

\* C2: on every input the parser returns Ok or one of the error variants;
\* it never panics.
C2_NeverPanics == result.kind # "Panic"

\* C3: for a formula the parser returned and a valuation of num_vars
\* values, the evaluation has num_true + num_false = num_clauses, is solved
\* exactly when num_false = 0, and num_clauses - num_true does not go below
\* zero: the call returns Some, it neither panics nor returns None.
C3_EvaluationCounts ==
    (evaluation # NotEvaluated /\ Len(valoration) = result.formula.num_vars) =>
        /\ evaluation.kind = "Some"
        /\ evaluation.num_true <= result.formula.num_clauses
        /\ evaluation.num_true + evaluation.num_false
               = result.formula.num_clauses
        /\ evaluation.solved <=> evaluation.num_false = 0

\* A valuation made one clause of two true and the other false.
C3_Witness ==
    /\ evaluation.kind = "Some"
    /\ Len(valoration) = result.formula.num_vars
    /\ evaluation.num_true = 1
    /\ evaluation.num_false = 1
    /\ ~evaluation.solved

\* C4: for a valuation whose length differs from num_vars, shorter or
\* longer or empty, Formula::evaluate returns None.
C4_WrongLengthIsNone ==
    (evaluation # NotEvaluated /\ Len(valoration) # result.formula.num_vars) =>
        evaluation = None

\* A valuation longer than num_vars was evaluated, against a formula that
\* has a value under its first num_vars entries.
C4_Witness ==
    /\ evaluation = None
    /\ Len(valoration) > result.formula.num_vars
    /\ result.formula.num_vars = 2

\* C5: SATObjective::eval is all or nothing.  If some individual, at any
\* position, has a number of genes other than the formula's num_vars, the
\* call returns None; it returns Some(scores) only when every individual
\* has num_vars genes and a score of its own, with one score each.
C5_AllOrNothing ==
    scores # NoScores =>
        /\ (\E i \in 1..Len(pop) : Len(pop[i]) # result.formula.num_vars)
               => scores = NoneScores
        /\ scores.kind = "Some" =>
             /\ Len(scores.scores) = Len(pop)
             /\ \A i \in 1..Len(pop) :
                  /\ Len(pop[i]) = result.formula.num_vars
                  /\ \A overflow_checks \in BOOLEAN :
                       FormulaEvaluate(result.formula, pop[i],
                                       overflow_checks).kind = "Some"

\* A population whose first individual is well-formed and whose second is
\* not was scored.
C5_Witness ==
    /\ scores = NoneScores
    /\ Len(pop) = 2
    /\ Len(pop[1]) = result.formula.num_vars
    /\ Len(pop[2]) # result.formula.num_vars

\* Whether the genes make the literal true.
LiteralSatisfied(literal, genes) ==
    /\ literal.id \in 1..Len(genes)
    /\ genes[literal.id] = (literal.tag = "Var")

\* The clauses (by position) none of whose literals the genes make true.
Falsified(formula, genes) ==
    { c \in 1..Len(formula.clauses) :
        \A j \in 1..Len(formula.clauses[c]) :
            ~LiteralSatisfied(formula.clauses[c][j], genes) }

\* C6: when SATObjective::eval returns Some(scores), scores has one entry
\* per individual, in population order, entry i being the number of clauses
\* individual i falsifies (0 exactly when it satisfies every clause); the
\* empty population yields Some of the empty vector.
C6_ScoresAreFalsifiedCounts ==
    /\ scores.kind = "Some" =>
         /\ Len(scores.scores) = Len(pop)
         /\ \A i \in 1..Len(pop) :
              /\ scores.scores[i]
                     = Cardinality(Falsified(result.formula, pop[i]))
              /\ scores.scores[i] = 0 <=>
                     Falsified(result.formula, pop[i]) = {}
    /\ (scores # NoScores /\ pop = <<>>) => scores = SomeScores(<<>>)

\* A population of one individual that satisfies both clauses and one that
\* falsifies both was scored.
C6_Witness ==
    /\ scores.kind = "Some"
    /\ Len(pop) = 2
    /\ scores.scores = <<0, 2>>

\* The parser went through the loop and returned from the final checks.
ReachedFinalChecks ==
    \/ result.kind = "Ok"
    \/ /\ result.kind = "Err"
       /\ result.err \in {"InconsistentNumOfClauses", "InconsistentNumOfVars",
                          "VarOutOfBounds"}
    \/ result = Panic("unwrap on None")

\* Some clause refers to a variable id above the declared num_vars.
SomeIdAboveNumVars == \E v \in VarIds(clauses) : v > num_vars

\* C7 as stated: whenever the header is valid, every body line parses and
\* some clause refers to a variable id above num_vars, the parser fails with
\* VarOutOfBounds.
C7_IdAboveNumVarsIsOutOfBounds ==
    (ReachedFinalChecks /\ SomeIdAboveNumVars) => result = Err("VarOutOfBounds")

\* C7, amended: whenever the header is valid, every body line parses and
\* some clause refers to a variable id above num_vars, the parser fails, and
\* with the error of the first final check that fails:
\* InconsistentNumOfClauses when the number of clauses stored is not
\* num_clauses, else InconsistentNumOfVars when the number of distinct ids
\* is not num_vars, else VarOutOfBounds.
C7_IdAboveNumVarsFails ==
    (ReachedFinalChecks /\ SomeIdAboveNumVars) =>
        result = IF Len(clauses) # num_clauses
                 THEN Err("InconsistentNumOfClauses")
                 ELSE IF Cardinality(VarIds(clauses)) # num_vars
                 THEN Err("InconsistentNumOfVars")
                 ELSE Err("VarOutOfBounds")

\* Both counts agreed with the header, an id was above num_vars, and the
\* parser returned VarOutOfBounds.
C7_Witness ==
    /\ pc = "done"
    /\ result = Err("VarOutOfBounds")
    /\ SomeIdAboveNumVars
    /\ Len(clauses) = num_clauses
    /\ Cardinality(VarIds(clauses)) = num_vars

\* The header line is exactly `p cnf <integer> <integer>`.
HeaderIsExact ==
    /\ Len(header) = 4
    /\ header[1] = <<"p">>
    /\ header[2] = <<"c", "n", "f">>
    /\ ParseInt(header[3], FALSE).ok
    /\ ParseInt(header[4], FALSE).ok

\* The header line has four tokens or more, starts with `p cnf`, and one of
\* its two count tokens is not an integer.
HeaderCountNotInteger ==
    /\ Len(header) >= 4
    /\ header[1] = <<"p">>
    /\ header[2] = <<"c", "n", "f">>
    /\ ~ParseInt(header[3], FALSE).ok \/ ~ParseInt(header[4], FALSE).ok

\* C8 as stated: the parser accepts the header line only when its tokens are
\* exactly `p`, `cnf` and two integers.  Any other first line, one with
\* tokens after the two counts included, makes the parser return an error
\* and no formula: Parsing when a count token is not an integer,
\* InvalidHeader otherwise.  An empty stream fails with NoHeader or, when
\* the read fails, IO.
C8_HeaderAcceptedOnlyIfExact ==
    [][/\ (pc = "header" /\ ~HeaderIsExact) =>
            /\ pc' = "done"
            /\ result' = IF HeaderCountNotInteger THEN Err("Parsing")
                         ELSE Err("InvalidHeader")
       /\ (pc = "start" /\ pc' = "done") =>
            result' \in {Err("NoHeader"), Err("IO")}]_vars

\* C9: when the first token of a clause line (a non-blank, non-comment line
\* read before any terminator) is 0, the parser returns EmptyClause there
\* and then, whatever num_vars and num_clauses the header declared and
\* whatever lines follow: no clause is stored and the final checks are not
\* reached.
C9_ZeroFirstIsEmptyClause ==
    [][(/\ pc = "token"
        /\ lits = <<>>
        /\ ParseInt(tok, TRUE) = [ok |-> TRUE, val |-> 0]) =>
            /\ pc' = "done"
            /\ result' = Err("EmptyClause")
            /\ clauses' = clauses]_vars

\* A clause line starting with 0 came after a stored clause, and the parser
\* returned EmptyClause with that clause count differing from num_clauses.
C9_Witness ==
    /\ pc = "done"
    /\ result = Err("EmptyClause")
    /\ ParseInt(tok, TRUE) = [ok |-> TRUE, val |-> 0]
    /\ Len(clauses) = 1
    /\ num_clauses # 1

\* C10: once the parser has read a terminator line it reads no further
\* line: its next step returns the result of the final checks on what it
\* had read up to the terminator, so whatever follows the terminator has no
\* effect on the result; and what it returned stays.
C10_NothingAfterTerminator ==
    [][/\ pc = "terminated" =>
            /\ pc' = "done"
            /\ result' = FinalCheck(num_vars, num_clauses, clauses, var_set)
            /\ UNCHANGED <<num_vars, num_clauses, clauses, var_set, lits>>
       /\ pc = "done" => UNCHANGED parserVars]_vars

\* The parser stored a clause, then read a terminator line, and is to
\* return a formula.
C10_Witness ==
    /\ pc = "terminated"
    /\ Len(clauses) >= 1
    /\ FinalCheck(num_vars, num_clauses, clauses, var_set).kind = "Ok"

\* What the three final checks, applied in order to the clauses stored,
\* are to return: the ids of no clause at all are the dense range
\* 1..num_vars for num_vars = 0.
InOrder(nv, nc, cls) ==
    IF Len(cls) # nc THEN Err("InconsistentNumOfClauses")
    ELSE IF Cardinality(VarIds(cls)) # nv THEN Err("InconsistentNumOfVars")
    ELSE IF VarIds(cls) # {} /\ Max(VarIds(cls)) # nv
    THEN Err("VarOutOfBounds")
    ELSE Ok([num_vars |-> nv, num_clauses |-> nc, clauses |-> cls])

\* C12 as stated: when the header is valid and every body line is scanned
\* without error, the first of the three final checks that fails decides
\* the error: InconsistentNumOfClauses for a clause-count mismatch, else
\* InconsistentNumOfVars for a distinct-id-count mismatch, else
\* VarOutOfBounds for a maximum id other than num_vars, else the result is
\* Ok.
C12_FinalChecksInOrder ==
    ReachedFinalChecks => result = InOrder(num_vars, num_clauses, clauses)

\* C13 as stated: the parser returns Ok only when every line that
\* contributed a stored clause held a terminating 0; a line of nonzero
\* integers with no 0 is not accepted as a clause.
C13_ClausesAreZeroTerminated == result.kind = "Ok" => ~no_zero

\* The clauses (by position) with at least one literal the valuation makes
\* true.
Satisfied(formula, val) ==
    { c \in 1..Len(formula.clauses) :
        \E j \in 1..Len(formula.clauses[c]) :
            LiteralSatisfied(formula.clauses[c][j], val) }

\* C14: for a parsed formula and a valuation of num_vars values, num_true
\* is the number of clauses with at least one satisfied literal, Var(id)
\* being satisfied iff valuation[id-1] is true and NegatedVar(id) iff it is
\* false; a clause counts once, whatever the order of its literals and
\* however often a literal is repeated.
C14_NumTrueCountsSatisfiedClauses ==
    (evaluation # NotEvaluated /\ Len(valoration) = result.formula.num_vars) =>
        evaluation.num_true
            = Cardinality(Satisfied(result.formula, valoration))

\* A valuation was evaluated against a formula with a clause whose first
\* literal it makes false, whose second it makes true and whose third
\* repeats the second.
C14_Witness ==
    /\ evaluation.kind = "Some"
    /\ Len(valoration) = result.formula.num_vars
    /\ \E c \in 1..Len(result.formula.clauses) :
         LET literals == result.formula.clauses[c]
         IN  /\ Len(literals) = 3
             /\ ~LiteralSatisfied(literals[1], valoration)
             /\ LiteralSatisfied(literals[2], valoration)
             /\ literals[3] = literals[2]
    /\ evaluation.num_true = 1

\* C15: for a formula the parser returned, no literal indexes outside a
\* valuation of num_vars values and id - 1 does not underflow (every id is
\* in 1..num_vars), so Formula::evaluate returns Some for every such
\* valuation, and SATObjective::eval returns Some for every population
\* whose individuals all have num_vars genes.
C15_ParsedFormulaAlwaysEvaluates ==
    result.kind = "Ok" =>
        /\ VarIds(result.formula.clauses) \subseteq 1..result.formula.num_vars
        /\ (/\ scores # NoScores
            /\ \A i \in 1..Len(pop) : Len(pop[i]) = result.formula.num_vars) =>
               /\ scores.kind = "Some"
               /\ \A i \in 1..Len(pop) : \A overflow_checks \in BOOLEAN :
                    FormulaEvaluate(result.formula, pop[i],
                                    overflow_checks).kind = "Some"

\* A population of two individuals of num_vars = 2 genes was scored against
\* a formula with a literal of the highest id, 2, and a negated literal.
C15_Witness ==
    /\ scores.kind = "Some"
    /\ Len(pop) = 2
    /\ result.formula.num_vars = 2
    /\ \A i \in 1..Len(pop) : Len(pop[i]) = 2
    /\ \E c \in 1..Len(result.formula.clauses) :
         \E j \in 1..Len(result.formula.clauses[c]) :
             result.formula.clauses[c][j] = Var(2)
    /\ \E c \in 1..Len(result.formula.clauses) :
         \E j \in 1..Len(result.formula.clauses[c]) :
             result.formula.clauses[c][j] = NegatedVar(1)

\* How often v occurs among the genes.
Occurrences(individual, v) ==
    Cardinality({ i \in 1..Len(individual) : individual[i] = v })

\* C11 as stated: for every generator with lower <= upper, gen_pop does not
\* fail, and what it returns is a population of pop_size individuals of dim
\* genes each, every gene of an integer individual being within
\* lower..upper and every permutation individual holding each of the values
\* 0..dim-1 once; for dim = 0 or pop_size = 0 that is an empty structure.
C11_GeneratedPopulationIsWellFormed ==
    generator.lower <= generator.upper =>
        /\ gpc # "panicked"
        /\ gpc = "returned" =>
             /\ Len(population) = generator.pop_size
             /\ \A i \in 1..Len(population) :
                  /\ Len(population[i]) = generator.dim
                  /\ generator.kind = "Integer" =>
                       \A j \in 1..generator.dim :
                           /\ generator.lower <= population[i][j]
                           /\ population[i][j] <= generator.upper
                  /\ generator.kind = "IntPerm" =>
                       \A v \in 0..(generator.dim - 1) :
                           Occurrences(population[i], v) = 1

====
